---- MODULE Spec2Model ----
(***************************************************************************)
(* NWBModelInterpreter (nwb_explorer/nwb_model_interpreter): the builder   *)
(* of the Geppetto type tree of an NWB file (createModel / importType) and *)
(* the lazy resolver of its time series values (importValue).              *)
(*                                                                         *)
(* Strings are sequences of one-character strings, so that sanitization,  *)
(* joining and splitting are computed character by character.  A character *)
(* outside ASCII is written by its code point ("U+00E9").                  *)
(***************************************************************************)
EXTENDS Integers, Sequences, FiniteSets, TLC

VARIABLES
    pc,          \* "idle": no call in progress; "importing": inside importType's loop;
                 \* "answered": importValue / get_nwbfile has returned `value'
    nwb_reader,  \* self.nwb_reader: None, or the open source (its records, in order)
    types,       \* nwb_geppetto_library.types of the model being built / last built
    common,      \* variables of the factory's shared StateVariableType
    idx,         \* position of the for loop in time_series_list
    outcome,     \* how the latest createModel ended: "none", "returned", "raised"
    request,     \* argument of the latest importValue / get_nwbfile call
    value,       \* what that call returned (Raised on an exception), until the host takes it
    builds,      \* number of createModel calls so far
    opened,      \* history: the source passed to the latest createModel
    prev         \* history: the source the reader held before the latest createModel

vars == <<pc, nwb_reader, types, common, idx, outcome, request, value, builds, opened, prev>>

(***************************** bounds **************************************)
MaxRecords == 2
MaxPathLen == 1
MaxSessionRecords == 2
MaxSessionPathLen == 1
MaxBuilds == 2
MaxAvail == 3
ScenarioLen == 3

(***************************** strings *************************************)
S_acquisition == <<"a", "c", "q", "u", "i", "s", "i", "t", "i", "o", "n">>
S_SignalA == <<"S", "i", "g", "n", "a", "l", "A">>
S_SignalB == <<"S", "i", "g", "n", "a", "l", "B">>
S_stimulus == <<"s", "t", "i", "m", "u", "l", "u", "s">>
S_SignalC == <<"S", "i", "g", "n", "a", "l", "C">>
S_time == <<"t", "i", "m", "e">>
S_data == <<"d", "a", "t", "a">>
S_image == <<"i", "m", "a", "g", "e">>
S_nwb == <<"n", "w", "b">>
S_nwbfile == <<"n", "w", "b", "f", "i", "l", "e">>
S_timeseries == <<"t", "i", "m", "e", "s", "e", "r", "i", "e", "s">>
S_time_ == <<"t", "i", "m", "e", "_">>
S_data_ == <<"d", "a", "t", "a", "_">>
S_My_Group_bang == <<"M", "y", " ", "G", "r", "o", "u", "p", "!">>
S_My_Group == <<"M", "y", "_", "G", "r", "o", "u", "p">>
S_other == <<"x">>

AsciiAlnum ==
    {"a", "b", "c", "d", "e", "f", "g", "h", "i", "j", "k", "l", "m", "n", "o", "p",
     "q", "r", "s", "t", "u", "v", "w", "x", "y", "z", "A", "B", "C", "D", "E", "F",
     "G", "H", "I", "J", "K", "L", "M", "N", "O", "P", "Q", "R", "S", "T", "U", "V",
     "W", "X", "Y", "Z", "0", "1", "2", "3", "4", "5", "6", "7", "8", "9"}

\* str.isalnum() is true of letters and digits outside ASCII as well
UnicodeAlnum == {"U+00E9", "U+00B2"}

isalnum(c) == c \in AsciiAlnum \cup UnicodeAlnum

\* ''.join(c for c in group_name.replace(' ', '_') if c.isalnum() or c in '_')
clean_name_to_variable(group_name) ==
    LET replaced == [i \in 1..Len(group_name) |->
                        IF group_name[i] = " " THEN "_" ELSE group_name[i]]
    IN  SelectSeq(replaced, LAMBDA c : isalnum(c) \/ c = "_")

path_separator == "."

RECURSIVE Join(_)
\* path_separator.join(pieces)
Join(pieces) ==
    IF pieces = <<>> THEN <<>>
    ELSE IF Len(pieces) = 1 THEN pieces[1]
    ELSE pieces[1] \o <<path_separator>> \o Join(Tail(pieces))

RECURSIVE SplitFrom(_, _, _, _)
SplitFrom(s, i, piece, done) ==
    IF i > Len(s) THEN Append(done, piece)
    ELSE IF s[i] = path_separator THEN SplitFrom(s, i + 1, <<>>, Append(done, piece))
    ELSE SplitFrom(s, i + 1, Append(piece, s[i]), done)

\* import_value_path.split(path_separator)
Split(s) == SplitFrom(s, 1, <<>>, <<>>)

(***************************** the source *********************************)
\* The NWB reader (nwb_reader.py) and the settings module are modelled
\* from their documented contract.
\* A source is the sequence of its records, in enumeration order.  A record
\* carries its kind, its raw name, its HierarchyPath (the raw names that
\* extract_time_series_path returns for it) and the error, if any, that
\* fetching its pixels raises.  A record is located by its HierarchyPath
\* followed by its name: these are the segments a reference carries between
\* the root marker and the axis (acquisition.[TIMESERIESNAME1].data).

SUPPORTED_TIME_SERIES_TYPES == {"TimeSeries", "ImageSeries"}

MAX_SAMPLES == 2

RawNames == {S_My_Group_bang, S_My_Group}

Errors == {"ValueError", "NotImplementedError", "OSError"}

RECURSIVE PathsOfLen(_, _)
PathsOfLen(names, n) ==
    IF n = 0 THEN {<<>>}
    ELSE {Append(p, x) : p \in PathsOfLen(names, n - 1), x \in names}

\* the sequences of 1 to n names
Chains(names, n) == UNION {PathsOfLen(names, k) : k \in 1..n}

\* the HierarchyPaths of up to n names; a record may lie at the root
Paths(names, n) == {<<>>} \cup Chains(names, n)

Records(names, paths) ==
    {[kind |-> k, name |-> x, path |-> p, err |-> "none"] :
        k \in {"TimeSeries", "ImageSeries", "OtherSeries"}, x \in names, p \in paths}
    \cup {[kind |-> "ImageSeries", name |-> x, path |-> p, err |-> e] :
              x \in names, p \in paths, e \in Errors}

\* where a record lies in its source: its HierarchyPath, then its name
Location(time_series) == Append(time_series.path, time_series.name)

IsPrefix(p, q) == Len(p) <= Len(q) /\ SubSeq(q, 1, Len(p)) = p

\* a record has a location of its own, and no record lies inside another one
Fits(f, r) ==
    \A i \in 1..Len(f) :
        /\ ~IsPrefix(Location(f[i]), Location(r))
        /\ ~IsPrefix(Location(r), Location(f[i]))

\* f is a source: its records fit together
IsSource(f) == \A i \in 1..Len(f) : Fits(SubSeq(f, 1, i - 1), f[i])

None == [open |-> FALSE, nwbfile |-> <<>>]

\* NWBReader(nwbfile_or_path)
NWBReader(f) == [open |-> TRUE, nwbfile |-> f]

\* NWBReader.get_all_timeseries
get_all_timeseries(reader) == reader.nwbfile

\* NWBReader.extract_time_series_path
extract_time_series_path(time_series) == time_series.path

\* time_series.name
NameOf(time_series) == time_series.name

NoRecord == [kind |-> "NoRecord", name |-> <<>>, path |-> <<>>, err |-> "none"]

\* NWBReader.retrieve_from_path: the record located by those raw names
retrieve_from_path(reader, path_pieces) ==
    LET found == {i \in 1..Len(reader.nwbfile) :
                     Location(reader.nwbfile[i]) = path_pieces}
    IN  IF found = {} THEN NoRecord ELSE reader.nwbfile[CHOOSE i \in found : TRUE]

\* NWBReader.get_timeseries_image_array: the pixels, or the error it raises
get_timeseries_image_array(time_series) == time_series.err

Min(a, b) == IF a < b THEN a ELSE b

\* NWBReader.get_timeseries_timestamps(time_series, MAX_SAMPLES): the number
\* of timestamps returned for a record that holds avail samples
get_timeseries_timestamps(avail, maxSamples) ==
    [array |-> "timestamps", samples |-> Min(avail, maxSamples)]

\* NWBReader.get_plottable_timeseries(time_series, MAX_SAMPLES): a tuple whose
\* first element is the downsampled data
get_plottable_timeseries(avail, maxSamples) ==
    <<[array |-> "data", samples |-> Min(avail, maxSamples)]>>

(***************************** the type tree ******************************)
\* A CompositeType is [id, name, variables]; a Variable is [id, name, type,
\* value].  A Variable's type is the position of its CompositeType in
\* library.types, or 0 for the factory's shared StateVariableType (whose
\* variables are `common').  History fields, not read by the code: `made'
\* (which statement created the object), `at' (the sanitized names walked
\* when a group was created) and `rec' (the record being processed).

StateVariableType == 0

CompositeType(id, name, made, at) ==
    [id |-> id, name |-> name, variables |-> <<>>, made |-> made, at |-> at]

Variable(id, type, initialValues, made, rec) ==
    [id |-> id, name |-> id, type |-> type, value |-> initialValues, made |-> made,
     rec |-> rec]

\* factory.createStateVariable(id, initialValue)
createStateVariable(id, initialValue, made, rec) ==
    Variable(id, StateVariableType, <<initialValue>>, made, rec)

VariablesOf(t, c, n) == IF n = StateVariableType THEN c ELSE t[n].variables

\* <type n>.variables.append(v)
AppendVariable(t, c, n, v) ==
    IF n = StateVariableType
    THEN [types |-> t, common |-> Append(c, v)]
    ELSE [types |-> [t EXCEPT ![n].variables = Append(@, v)], common |-> c]

\* [variable.types[0] for variable in parent_type.variables
\*      if current_group_name == variable.name]
LookupNoReuse(variables, current_group_name) == <<>>

Lookup(variables, current_group_name) ==
    LET hits == SelectSeq(variables, LAMBDA variable : current_group_name = variable.name)
    IN  [i \in 1..Len(hits) |-> hits[i].type]

RECURSIVE Walk(_, _, _, _, _, _, _)
\* the walk of one record's path: for path_element in timeseries_path
Walk(t, c, current_variable_type, at, timeseries_path, k, rec) ==
    IF k > Len(timeseries_path)
    THEN [types |-> t, common |-> c, current |-> current_variable_type]
    ELSE
        LET current_group_name == clean_name_to_variable(timeseries_path[k])
            parent_type == current_variable_type
            current_variable_types ==
                Lookup(VariablesOf(t, c, parent_type), current_group_name)
            here == Append(at, current_group_name)
            new == Len(t) + 1
            grown == Append(t, CompositeType(current_group_name, current_group_name,
                                             "walk", here))
            added == AppendVariable(grown, c, parent_type,
                         Variable(current_group_name, new, <<>>, "walk", rec))
        IN  IF current_variable_types # <<>>
            THEN Walk(t, c, current_variable_types[1], here, timeseries_path, k + 1, rec)
            ELSE Walk(added.types, added.common, new, here, timeseries_path, k + 1, rec)

\* get_timeseries_type(name)
get_timeseries_type_time_only(name) ==
    [CompositeType(name, S_timeseries, "leaf", <<>>) EXCEPT
        !.variables = <<createStateVariable(S_time, "ImportValue", "member", 0)>>]

get_timeseries_type(name) ==
    [CompositeType(name, S_timeseries, "leaf", <<>>) EXCEPT
        !.variables = <<createStateVariable(S_time, "ImportValue", "member", 0),
                        createStateVariable(S_data, "ImportValue", "member", 0)>>]

\* the body of the try statement: the leaf of one record
Leaf(t, c, current_variable_type, time_series, rec) ==
    IF time_series.kind = "ImageSeries"
    THEN
        LET plottable_image == get_timeseries_image_array(time_series)
            grown == AppendVariable(t, c, current_variable_type,
                         createStateVariable(S_image, "Image", "leaf", rec))
        IN  IF plottable_image # "none"
            THEN [types |-> t, common |-> c, raised |-> plottable_image]
            ELSE [types |-> grown.types, common |-> grown.common, raised |-> "none"]
    ELSE
        LET timeseries_type == get_timeseries_type(NameOf(time_series))
            registered == Append(t, timeseries_type)
            variable_name == clean_name_to_variable(NameOf(time_series))
            grown == AppendVariable(registered, c, current_variable_type,
                         Variable(variable_name, Len(registered), <<>>, "leaf", rec))
        IN  [types |-> grown.types, common |-> grown.common, raised |-> "none"]

\* except ValueError ... except NotImplementedError
CaughtValueErrorOnly(e) == e = "ValueError"

Caught(e) == e \in {"ValueError", "NotImplementedError"}

\* if not isinstance(time_series, SUPPORTED_TIME_SERIES_TYPES): ... continue
UnsupportedNever(time_series) == FALSE

Unsupported(time_series) == time_series.kind \notin SUPPORTED_TIME_SERIES_TYPES

\* one iteration of the loop over time_series_list
Body(t, c, time_series, rec) ==
    IF Unsupported(time_series)
    THEN [types |-> t, common |-> c, raised |-> "none"]
    ELSE
        LET timeseries_path == extract_time_series_path(time_series)
            w == Walk(t, c, 1, <<>>, timeseries_path, 1, rec)
            l == Leaf(w.types, w.common, w.current, time_series, rec)
        IN  [l EXCEPT !.raised = IF Caught(@) THEN "none" ELSE @]

(***************************** the resolver ********************************)
NoValue == [kind |-> "none"]

Raised == [kind |-> "raised"]

\* if var_to_extract == 'time'
AxisIsTimeAlways(var_to_extract) == TRUE

AxisIsTime(var_to_extract) == var_to_extract = S_time

\* factory.createTimeSeries(name, values, unit), with the record and the
\* reader it was read from
createTimeSeries(name, values, unit, time_series, reader) ==
    [kind |-> "TimeSeries", name |-> name, values |-> values, unit |-> unit,
     of |-> time_series, from |-> reader.nwbfile]

\* importValue(import_value_path), for a record that holds avail samples
importValue(reader, import_value_path, avail) ==
    LET path_pieces == Split(import_value_path)
        var_to_extract == path_pieces[Len(path_pieces)]
        time_series == retrieve_from_path(reader, SubSeq(path_pieces, 2, Len(path_pieces) - 1))
    IN  IF ~reader.open \/ time_series = NoRecord
        THEN Raised
        ELSE IF AxisIsTime(var_to_extract)
        THEN createTimeSeries(S_time_ \o NameOf(time_series),
                 get_timeseries_timestamps(avail, MAX_SAMPLES),
                 "guessUnits(timestamps_unit)", time_series, reader)
        ELSE createTimeSeries(S_data_ \o NameOf(time_series),
                 get_plottable_timeseries(avail, MAX_SAMPLES)[1],
                 "guessUnits(unit)", time_series, reader)

(***************************** actions *************************************)
Init ==
    /\ pc = "idle"
    /\ nwb_reader = None
    /\ types = <<>>
    /\ common = <<>>
    /\ idx = 0
    /\ outcome = "none"
    /\ request = [call |-> "none", path |-> <<>>, avail |-> 0]
    /\ value = NoValue
    /\ builds = 0
    /\ opened = <<>>
    /\ prev = None

\* self.nwb_reader = NWBReader(nwbfile_or_path)
KeepOpenReader(old, nwbfile_or_path) ==
    IF old.open THEN old ELSE NWBReader(nwbfile_or_path)

OpenReader(old, nwbfile_or_path) == NWBReader(nwbfile_or_path)

\* createModel up to the loop of importType: the root type is registered,
\* the source is opened and retained, its records are listed
CreateModel(nwbfile_or_path) ==
    /\ pc = "idle"
    /\ types' = <<CompositeType(S_nwb, S_nwb, "root", <<>>)>>
    /\ nwb_reader' = OpenReader(nwb_reader, nwbfile_or_path)
    /\ idx' = 1
    /\ pc' = "importing"
    /\ outcome' = "none"
    /\ UNCHANGED <<request, value>>
    /\ builds' = builds + 1
    /\ opened' = nwbfile_or_path
    /\ prev' = nwb_reader
    /\ UNCHANGED common

\* the host calls createModel, at most `limit' times, on a source of up to
\* `longest' of `records'
CreateModelOn(records, longest, limit) ==
    /\ pc = "idle"
    /\ builds < limit
    /\ \E n \in 0..longest : \E nwbfile_or_path \in [1..n -> records] :
           IsSource(nwbfile_or_path) /\ CreateModel(nwbfile_or_path)

\* one iteration of: for time_series in time_series_list
ImportRecord ==
    /\ pc = "importing"
    /\ idx <= Len(get_all_timeseries(nwb_reader))
    /\ LET b == Body(types, common, get_all_timeseries(nwb_reader)[idx], idx)
       IN  /\ types' = b.types
           /\ common' = b.common
           /\ IF b.raised = "none"
              THEN idx' = idx + 1 /\ UNCHANGED <<pc, outcome>>
              ELSE pc' = "idle" /\ outcome' = "raised" /\ UNCHANGED idx
    /\ UNCHANGED <<nwb_reader, request, value, builds, opened, prev>>

\* the loop is over: importType returns, createModel returns the model
Return ==
    /\ pc = "importing"
    /\ idx > Len(get_all_timeseries(nwb_reader))
    /\ pc' = "idle"
    /\ outcome' = "returned"
    /\ UNCHANGED <<nwb_reader, types, common, idx, request, value, builds, opened, prev>>

\* the host resolves a reference
ImportValue(import_value_path, avail) ==
    /\ pc = "idle"
    /\ pc' = "answered"
    /\ request' = [call |-> "importValue", path |-> import_value_path, avail |-> avail]
    /\ value' = importValue(nwb_reader, import_value_path, avail)
    /\ UNCHANGED <<nwb_reader, types, common, idx, outcome, builds, opened, prev>>

\* the host resolves one of `references'; the record it names holds one of
\* `sizes' samples
ImportValueOf(references, sizes) ==
    /\ pc = "idle"
    /\ \E ref \in references, avail \in sizes : ImportValue(ref, avail)

\* get_nwbfile(): self.nwb_reader.nwbfile
GetNwbfile ==
    /\ pc = "idle"
    /\ pc' = "answered"
    /\ request' = [call |-> "get_nwbfile", path |-> <<>>, avail |-> 0]
    /\ value' = IF nwb_reader.open
                THEN [kind |-> "nwbfile", from |-> nwb_reader.nwbfile]
                ELSE Raised
    /\ UNCHANGED <<nwb_reader, types, common, idx, outcome, builds, opened, prev>>

\* the host takes the answer; the interpreter is ready for the next call
Answer ==
    /\ pc = "answered"
    /\ pc' = "idle"
    /\ request' = [call |-> "none", path |-> <<>>, avail |-> 0]
    /\ value' = NoValue
    /\ UNCHANGED <<nwb_reader, types, common, idx, outcome, builds, opened, prev>>

(***************************** specifications ******************************)
\* one import of any source of up to MaxRecords records
BuildRecords == Records(RawNames, Paths(RawNames, MaxPathLen))

Next ==
    \/ CreateModelOn(BuildRecords, MaxRecords, 1)
    \/ ImportRecord
    \/ Return

Spec == Init /\ [][Next]_vars

\* the sources of the resolver's specifications: ordinary records only
SessionRecords ==
    {r \in Records(RawNames, Paths(RawNames, MaxSessionPathLen)) : r.kind = "TimeSeries"}

Axes == {S_time, S_data, S_other}

\* the references the host may ask for: the root marker, raw or sanitized
\* names (one more than a path has: the record's own), and a last segment
References ==
    {Join(<<S_nwbfile>> \o chain \o <<axis>>) :
        chain \in Chains(RawNames \cup {clean_name_to_variable(x) : x \in RawNames},
                         MaxSessionPathLen + 1),
        axis \in Axes}

\* one import, then resolutions of any reference, for any number of samples
NextResolve ==
    \/ CreateModelOn(SessionRecords, MaxSessionRecords, 1)
    \/ ImportRecord
    \/ Return
    \/ ImportValueOf(References, 0..MaxAvail)
    \/ GetNwbfile
    \/ Answer

SpecResolve == Init /\ [][NextResolve]_vars

\* the sources of a session: ordinary records at the root
RootRecords == {r \in SessionRecords : r.path = <<>>}

\* the references of those records: root marker, location, axis
PathReferences ==
    {Join(<<S_nwbfile>> \o Location(r) \o <<axis>>) :
        r \in RootRecords, axis \in {S_time, S_data}}

\* a session of the host: up to MaxBuilds createModel calls, and resolutions
\* in between
NextSession ==
    \/ CreateModelOn(RootRecords, MaxSessionRecords, MaxBuilds)
    \/ ImportRecord
    \/ Return
    \/ ImportValueOf(PathReferences, {MaxAvail})
    \/ GetNwbfile
    \/ Answer

SpecSession == Init /\ [][NextSession]_vars

\* the documented scenario: two ordinary series SignalA and SignalB and an
\* image series SignalC, whose HierarchyPaths are the given group names
\* followed, or not, by the record's own name
Scenario(named) ==
    LET below(group, name) == IF named THEN <<group, name>> ELSE <<group>>
    IN  <<[kind |-> "TimeSeries", name |-> S_SignalA,
           path |-> below(S_acquisition, S_SignalA), err |-> "none"],
          [kind |-> "TimeSeries", name |-> S_SignalB,
           path |-> below(S_acquisition, S_SignalB), err |-> "none"],
          [kind |-> "ImageSeries", name |-> S_SignalC,
           path |-> below(S_stimulus, S_SignalC), err |-> "none"]>>

\* the scenario's source with HierarchyPaths [acquisition, SignalA], ...
ScenarioSource == Scenario(TRUE)

\* the scenario's source with HierarchyPaths [acquisition], [acquisition], [stimulus]
GroupScenarioSource == Scenario(FALSE)

\* sources of up to ScenarioLen of those records, in any order
ScenarioRecords ==
    {Scenario(named)[i] : named \in BOOLEAN, i \in 1..Len(ScenarioSource)}

ScenarioReferences ==
    {Join(<<S_nwbfile>> \o Location(r) \o <<axis>>) : r \in ScenarioRecords, axis \in Axes}

NextScenario ==
    \/ CreateModelOn(ScenarioRecords, ScenarioLen, 1)
    \/ ImportRecord
    \/ Return
    \/ ImportValueOf(ScenarioReferences, 0..MaxAvail)
    \/ Answer

SpecScenario == Init /\ [][NextScenario]_vars

(***************************** reading the tree ***************************)
Returned == pc # "importing" /\ outcome = "returned"

time_series_list == get_all_timeseries(nwb_reader)

Nodes == 1..Len(types)

\* the types whose variables the code can reach: the library's, and the shared one
Owners == Nodes \cup {StateVariableType}

Supported(i) == time_series_list[i].kind \in SUPPORTED_TIME_SERIES_TYPES

Ordinary(i) == Supported(i) /\ time_series_list[i].kind # "ImageSeries"

Fails(i) == time_series_list[i].kind = "ImageSeries" /\ time_series_list[i].err # "none"

\* the sanitized names of the first k segments of record i's path
CleanPrefix(i, k) ==
    [j \in 1..k |-> clean_name_to_variable(time_series_list[i].path[j])]

\* the group TreeNodes created for the sanitized prefix p
GroupsAt(p) == {n \in Nodes : types[n].made = "walk" /\ types[n].at = p}

RECURSIVE Reach(_, _, _)
\* the type reached from type n along the Slots named p[k], p[k+1], ...
\* (the first Slot of that name at each step), or -1 when a Slot is missing
Reach(n, p, k) ==
    IF k > Len(p) THEN n
    ELSE LET hits == SelectSeq(VariablesOf(types, common, n), LAMBDA v : v.name = p[k])
         IN  IF hits = <<>> THEN -1 ELSE Reach(hits[1].type, p, k + 1)

\* record i's leaf Slot is in the tree
HasLeaf(i) ==
    \E n \in Owners : \E j \in 1..Len(VariablesOf(types, common, n)) :
        LET v == VariablesOf(types, common, n)[j]
        IN  v.made = "leaf" /\ v.rec = i

IsIdentifier(id) == \A j \in 1..Len(id) : id[j] \in AsciiAlnum \cup {"_"}

(***************************** claims **************************************)
\* C1: after importType has processed a sequence of supported records, the
\* tree holds exactly one group TreeNode per distinct prefix of sanitized
\* path segments, and the Slot chain named by the prefix leads to it.
C1_OneGroupPerPrefix ==
    (Returned /\ \A i \in 1..Len(time_series_list) : Supported(i)) =>
        \A i \in 1..Len(time_series_list) :
            \A k \in 1..Len(time_series_list[i].path) :
                /\ Cardinality(GroupsAt(CleanPrefix(i, k))) = 1
                /\ Reach(1, CleanPrefix(i, k), 1) \in GroupsAt(CleanPrefix(i, k))

\* the records are all supported, and exactly one of them raises, a
\* ValueError or a NotImplementedError
ExactlyOneBuildError ==
    /\ \A i \in 1..Len(time_series_list) : Supported(i)
    /\ Cardinality({i \in 1..Len(time_series_list) : Fails(i)}) = 1
    /\ \A i \in 1..Len(time_series_list) :
           Fails(i) => time_series_list[i].err \in {"ValueError", "NotImplementedError"}

\* C3: when exactly one of N supported records raises ValueError or
\* NotImplementedError, createModel does not raise, and every other record
\* already processed has its leaf Slot; at the return all N were processed.
C3_OneFailureIsIsolated ==
    (nwb_reader.open /\ ExactlyOneBuildError) =>
        /\ outcome # "raised"
        /\ \A i \in 1..(idx - 1) : ~Fails(i) => HasLeaf(i)
        /\ Returned => idx = Len(time_series_list) + 1

\* C3 witness: the first of two records failed, createModel returned, and
\* the record after it has its leaf
C3_Witness ==
    /\ Returned /\ ExactlyOneBuildError
    /\ Len(time_series_list) = 2 /\ Fails(1) /\ HasLeaf(2)

\* the iteration over a record of an unsupported kind changes neither the
\* tree nor the library and moves on to the next record
C4_SkipStep ==
    (pc = "importing" /\ idx <= Len(time_series_list) /\ ~Supported(idx)) =>
        /\ types' = types
        /\ common' = common
        /\ idx' = idx + 1
        /\ pc' = "importing"

\* C4: the iteration over a record of an unsupported kind leaves the tree and
\* the library as they are and moves on to the next record; the supported
\* records around it all have their leaves at the return, and the
\* unsupported one has none.
C4_UnsupportedIsSkipped ==
    /\ [][C4_SkipStep]_vars
    /\ [](Returned =>
            \A i \in 1..Len(time_series_list) :
                /\ (Supported(i) /\ ~Fails(i)) => HasLeaf(i)
                /\ ~Supported(i) => ~HasLeaf(i))

\* C4 witness: an unsupported record came first and the supported record
\* after it was imported
C4_Witness ==
    /\ Returned /\ Len(time_series_list) = 2
    /\ ~Supported(1) /\ Supported(2) /\ HasLeaf(2)
    /\ Len(types) > 1

\* C8: every identifier of the built model (the id of every type registered in
\* the library and of every Slot) is made of ASCII letters, digits and
\* underscores only.
C8_IdentifiersAreSanitized ==
    /\ \A n \in Nodes : IsIdentifier(types[n].id)
    /\ \A n \in Owners : \A j \in 1..Len(VariablesOf(types, common, n)) :
           IsIdentifier(VariablesOf(types, common, n)[j].id)

\* C9: every ordinary record imported has a TimeSeriesDescriptor of its own,
\* and every TimeSeriesDescriptor owns exactly the Slots time and data, both
\* unresolved.
C9_DescriptorsHoldTimeAndData ==
    Returned =>
        /\ Cardinality({n \in Nodes : types[n].made = "leaf"})
             = Cardinality({i \in 1..Len(time_series_list) : Ordinary(i)})
        /\ \A n \in Nodes : types[n].made = "leaf" =>
              /\ Len(types[n].variables) = 2
              /\ types[n].variables[1].id = S_time
              /\ types[n].variables[2].id = S_data
              /\ \A j \in 1..2 : types[n].variables[j].value = <<"ImportValue">>

\* C10 as stated: no type owns two Slots with the same identifier.
C10_NoDuplicateSlots ==
    \A n \in Owners : \A i, j \in 1..Len(VariablesOf(types, common, n)) :
        i < j => VariablesOf(types, common, n)[i].id # VariablesOf(types, common, n)[j].id

\* C10 amended: the path walk never appends a Slot whose identifier its parent
\* already owns; of two Slots of one type with the same identifier, the later
\* one is a leaf Slot (a record's Slot or an image Slot).
C10_WalkAddsNoDuplicate ==
    \A n \in Owners : \A i, j \in 1..Len(VariablesOf(types, common, n)) :
        (i < j /\ VariablesOf(types, common, n)[i].id = VariablesOf(types, common, n)[j].id)
            => VariablesOf(types, common, n)[j].made = "leaf"

\* C10 witness: two records went through the same group (the second walk
\* reused it) and left it two leaf Slots with one identifier
C10_Witness ==
    /\ Returned
    /\ \E n \in Nodes : \E i, j \in 1..Len(types[n].variables) :
          /\ i < j
          /\ types[n].made = "walk"
          /\ types[n].variables[i].id = types[n].variables[j].id
          /\ types[n].variables[i].rec # types[n].variables[j].rec

\* the identifiers of the Slots of type n, in order
SlotIds(n) == [j \in 1..Len(types[n].variables) |-> types[n].variables[j].id]

\* type n is a TimeSeriesDescriptor: named timeseries, with Slots time and data
IsTimeSeriesDescriptor(n) ==
    /\ n \in Nodes
    /\ types[n].name = S_timeseries
    /\ SlotIds(n) = <<S_time, S_data>>

\* the tree the scenario expects: the root owns acquisition and stimulus;
\* acquisition's Slots are exactly SignalA and SignalB, each pointing to a
\* TimeSeriesDescriptor; stimulus's only Slot is image, holding one image
ScenarioTree ==
    LET acquisition == Reach(1, <<S_acquisition>>, 1)
        stimulus == Reach(1, <<S_stimulus>>, 1)
    IN  /\ SlotIds(1) = <<S_acquisition, S_stimulus>>
        /\ SlotIds(acquisition) = <<S_SignalA, S_SignalB>>
        /\ \A j \in 1..2 : IsTimeSeriesDescriptor(types[acquisition].variables[j].type)
        /\ SlotIds(stimulus) = <<S_image>>
        /\ types[stimulus].variables[1].value = <<"Image">>

\* C2 as stated: the source whose records have the HierarchyPaths
\* [acquisition, SignalA], [acquisition, SignalB] and [stimulus, SignalC]
\* is imported to the tree the scenario expects.
C2_ScenarioTree ==
    (Returned /\ time_series_list = ScenarioSource) => ScenarioTree

\* C2 amended: the source whose records SignalA, SignalB and SignalC have the
\* HierarchyPaths [acquisition], [acquisition] and [stimulus] is imported to
\* the tree the scenario expects.
C2_GroupScenarioTree ==
    (Returned /\ time_series_list = GroupScenarioSource) => ScenarioTree

\* C2 witness: that source was imported, and SignalB's descriptor is in place
C2_Witness ==
    /\ Returned /\ time_series_list = GroupScenarioSource
    /\ Len(types) = 5
    /\ IsTimeSeriesDescriptor(Reach(1, <<S_acquisition, S_SignalB>>, 1))

\* the positions of the Slots of type m that point to type n
SlotsTo(m, n) == {j \in 1..Len(types[m].variables) : types[m].variables[j].type = n}

\* the positions of the leaf Slots of type m built from record i
LeafSlots(m, i) ==
    {j \in 1..Len(types[m].variables) :
        types[m].variables[j].made = "leaf" /\ types[m].variables[j].rec = i}

RECURSIVE ChainsTo(_)
\* the Slot identifier chains that lead from the root type to type n
ChainsTo(n) ==
    IF n = 1 THEN {<<>>}
    ELSE UNION {UNION {{Append(c, types[m].variables[j].id) : c \in ChainsTo(m)} :
                           j \in SlotsTo(m, n)} :
                    m \in {x \in Nodes : x < n}}

\* the references of record i's leaf: root marker, Slot chain, axis
LeafReferences(i, axis) ==
    UNION {UNION {{Join(<<S_nwbfile>> \o Append(c, types[m].variables[j].id) \o <<axis>>) :
                       c \in ChainsTo(m)} :
                     j \in LeafSlots(m, i)} :
              m \in Nodes}

\* C5: the reference of every ordinary record's leaf (root marker, the Slot
\* identifiers from the root to the leaf Slot, time or data) is decoded by
\* importValue to the record the leaf was built from.
C5_ReferenceRoundTrip ==
    Returned =>
        \A i \in 1..Len(time_series_list) : Ordinary(i) =>
            \A axis \in {S_time, S_data} : \A ref \in LeafReferences(i, axis) :
                LET got == importValue(nwb_reader, ref, MaxAvail)
                IN  got.kind = "TimeSeries" /\ got.of = time_series_list[i]

\* C6: a resolved value is chosen by the last segment of the reference alone:
\* time gives time_<name>, the timestamps and their unit, anything else
\* data_<name>, the first element of the plottable data and the data unit;
\* it holds min(available, MAX_SAMPLES) samples of the record at the
\* reference's interior segments.
C6_AxisFromLastSegment ==
    (request.call = "importValue" /\ value.kind = "TimeSeries") =>
        LET path_pieces == Split(request.path)
            last == path_pieces[Len(path_pieces)]
        IN  /\ Location(value.of) = SubSeq(path_pieces, 2, Len(path_pieces) - 1)
            /\ value.values.samples = Min(request.avail, MAX_SAMPLES)
            /\ last = S_time =>
                  /\ value.name = S_time_ \o NameOf(value.of)
                  /\ value.values.array = "timestamps"
                  /\ value.unit = "guessUnits(timestamps_unit)"
            /\ last # S_time =>
                  /\ value.name = S_data_ \o NameOf(value.of)
                  /\ value.values.array = "data"
                  /\ value.unit = "guessUnits(unit)"

\* C6 witness: a reference whose last segment is neither time nor data was
\* resolved to the data of a record with more samples than MAX_SAMPLES
C6_Witness ==
    /\ request.call = "importValue" /\ value.kind = "TimeSeries"
    /\ Split(request.path)[Len(Split(request.path))] = S_other
    /\ request.avail > MAX_SAMPLES
    /\ value.name = S_data_ \o NameOf(value.of)
    /\ value.values.samples = MAX_SAMPLES

\* a step of importValue or get_nwbfile leaves the retained reader as it is
C7_ResolverStep ==
    (pc = "idle" /\ pc' = "answered") => nwb_reader' = nwb_reader

\* C7: the retained reader is the one the latest createModel opened; what
\* importValue and get_nwbfile return comes from that source; a step of
\* importValue or get_nwbfile leaves the reader as it is.
C7_LatestSourceIsCurrent ==
    /\ [][C7_ResolverStep]_vars
    /\ [](builds > 0 => nwb_reader = NWBReader(opened))
    /\ [](value.kind \in {"TimeSeries", "nwbfile"} => value.from = opened)
    /\ [](value.kind = "TimeSeries" => \E i \in 1..Len(opened) : opened[i] = value.of)

\* C7 witness: after a second createModel on another source, a reference that
\* the earlier source resolved as well is resolved to a record read from the
\* newer source
C7_Witness ==
    /\ builds = 2 /\ Returned /\ prev.open /\ prev.nwbfile # opened
    /\ request.call = "importValue" /\ value.kind = "TimeSeries"
    /\ importValue(prev, request.path, request.avail).kind = "TimeSeries"
    /\ importValue(prev, request.path, request.avail).from # value.from
    /\ value.from = opened

====
